---- MODULE Spec2Model ----
(***************************************************************************)
(* A model of stama (src/stama/__init__.py): a hierarchical state machine  *)
(* with history re-entry, guards, conditional junctions and ordered hooks. *)
(* Nodes, events and predicates are strings; a call's effect on the        *)
(* machine is computed by operators that follow the Python methods.        *)
(***************************************************************************)
EXTENDS Naturals, Sequences, FiniteSets

VARIABLES
    current_state,      \* StateMachine._current_state
    deep_history,       \* SuperState._deep_history, per super-state
    shallow_history,    \* SuperState._shallow_history, per super-state
    preferred_entry,    \* SuperState._preferred_entry, per super-state
    entry_changes,      \* how many times the application reassigned a _preferred_entry
    call,               \* the last call made on the machine and what it resolved
    hooks,              \* the callbacks the last call invoked, in order
    evals,              \* the predicates the last call evaluated, in order, with their values
    result,             \* how the last call ended: "ok" or the exception raised
    exit_leaf,          \* per super-state: _current_state when its on_exit last ran
    exit_child,         \* per super-state: the node whose on_exit ran just before its own
    junction,           \* a ConditionalJunction's fields (default_state, condition_list)
    env,                \* the predicates' values during the last direct evaluate() call
    returned,           \* what the last direct evaluate() call returned
    attached,           \* State._parent per node, SuperState.starting_state per super-state
    ancestry_call,      \* the last _figure_out_ancestry call made on its own, and its answer
    stack,              \* per thread: its process_event calls in flight, the outermost first
    lock,               \* StateMachine._lock: the owning thread and the recursion level
    calls,              \* how many process_event calls the threads and hooks have made
    ended               \* the process_event call that ended last, and how

treeVars == <<attached, ancestry_call>>
threadVars == <<stack, lock, calls, ended>>

vars == <<current_state, deep_history, shallow_history, preferred_entry,
          entry_changes, call, hooks, evals, result, exit_leaf, exit_child,
          junction, env, returned, attached, ancestry_call, stack, lock, calls, ended>>

-----------------------------------------------------------------------------
(* Bounds *)

MaxEntryChanges == 2
MaxConditions == 3
MaxAttachments == 5
MaxCalls == 2
MaxDepth == 2

-----------------------------------------------------------------------------
(* The node graph: the tree of the test suite (a{aa{aaa,aab},ab{aba,abb}}, *)
(* b), a second top-level leaf c, and two junctions, jt at the top level   *)
(* and ja inside aa.                                                       *)

None == "None"
Machine == "hsm"

STARTING_STATE == "starting state"
SHALLOW_HISTORY == "shallow history"
DEEP_HISTORY == "deep history"
EntryModes == {STARTING_STATE, SHALLOW_HISTORY, DEEP_HISTORY}

SimpleStates == {"aaa", "aab", "aba", "abb", "b", "c"}
SuperStates == {"a", "aa", "ab"}
Junctions == {"jt", "ja"}
States == SimpleStates \cup SuperStates
Nodes == States \cup Junctions

Events == {"ev", "ev2", "cycle", "noop", "guard", "timer"}
Preds == {"p", "q1", "q2", "q3", "r1"}
Valuations == [Preds -> BOOLEAN]

\* The add_to_super_state calls of the construction, in program order.
Attachments ==
    << <<"aa", "a">>, <<"ab", "a">>, <<"aaa", "aa">>, <<"aab", "aa">>,
       <<"aba", "ab">>, <<"abb", "ab">>, <<"ja", "aa">> >>

\* Before any attachment: no node has a parent, a SuperState has no starting state.
NewTree ==
    [parent |-> [n \in Nodes |-> None],
     starting_state |-> [s \in SuperStates |-> None]]

\* Every attachment overwrites the starting state: the last child attached wins.
add_to_super_state_last_wins(tree, child, super) ==
    [parent |-> [tree.parent EXCEPT ![child] = super],
     starting_state |-> [tree.starting_state EXCEPT ![super] = child]]

\* The parent link is set, the starting state never is.
add_to_super_state_no_starting_state(tree, child, super) ==
    [parent |-> [tree.parent EXCEPT ![child] = super],
     starting_state |-> tree.starting_state]

\* State.add_to_super_state (the parent is a SuperState already).
add_to_super_state(tree, child, super) ==
    [parent |-> [tree.parent EXCEPT ![child] = super],
     starting_state |->
        IF tree.starting_state[super] = None
        THEN [tree.starting_state EXCEPT ![super] = child]
        ELSE tree.starting_state]

RECURSIVE Build(_)
Build(n) ==
    IF n = 0 THEN NewTree
    ELSE add_to_super_state(Build(n - 1), Attachments[n][1], Attachments[n][2])

Tree == Build(Len(Attachments))

parent(n) == Tree.parent[n]
starting_state(s) == Tree.starting_state[s]

-----------------------------------------------------------------------------
(* Transition tables and junctions.  A table value is a record: a node, a  *)
(* Guard, None (handled internally), or absent (the event is no key).      *)

Absent == [type |-> "absent", state |-> None, condition |-> None]
Internal == [type |-> "none", state |-> None, condition |-> None]
To(n) == [type |-> "node", state |-> n, condition |-> None]
Guard(p, n) == [type |-> "guard", state |-> n, condition |-> p]

transitions(s, e) ==
    CASE e = "ev" ->
            (CASE s = "abb" -> To("b")
               [] s = "b" -> To("a")
               [] s = "c" -> To("ab")
               [] OTHER -> Absent)
      [] e = "ev2" ->
            (CASE s = "aaa" -> To("aba")
               [] s = "aba" -> To("aab")
               [] s = "aab" -> To("a")
               [] s = "b" -> To("b")
               [] s = "abb" -> To("abb")
               [] OTHER -> Absent)
      [] e = "cycle" ->
            (CASE s = "b" -> To("c")
               [] s = "c" -> To("b")
               [] OTHER -> Absent)
      [] e = "noop" ->
            (CASE s = "aab" -> Internal
               [] s = "c" -> Internal
               [] s = "a" -> To("b")
               [] OTHER -> Absent)
      [] e = "guard" ->
            (CASE s = "abb" -> Guard("p", "b")
               [] s = "b" -> Guard("p", "a")
               [] s = "ab" -> To("c")
               [] OTHER -> Absent)
      [] e = "timer" ->
            (CASE s = "b" -> To("jt")
               [] s = "abb" -> To("ja")
               [] s = "aaa" -> To("jt")
               [] s = "c" -> To("ja")
               [] OTHER -> Absent)
      [] OTHER -> Absent

Condition(p, n) == [condition |-> p, state |-> n]

default_state(j) ==
    CASE j = "jt" -> "b"
      [] j = "ja" -> "jt"

condition_list(j) ==
    CASE j = "jt" -> <<Condition("q1", "aab"), Condition("q2", "a"), Condition("q3", "c")>>
      [] j = "ja" -> <<Condition("r1", "aba")>>

-----------------------------------------------------------------------------
(* Module-level helpers of the library.                                    *)

\* _get_ancestors, reading node.parent from `links`: the parents of a node,
\* nearest first; [] for None.
RECURSIVE _get_ancestors_by(_, _)
_get_ancestors_by(links, state) ==
    IF state = None THEN <<>>
    ELSE IF links[state] = None THEN <<>>
    ELSE <<links[state]>> \o _get_ancestors_by(links, links[state])

\* _get_ancestors in the tree of the test suite.
_get_ancestors(state) == _get_ancestors_by(Tree.parent, state)

InSeq(x, s) == \E i \in 1..Len(s) : s[i] = x

\* list.index
IndexOf(x, s) == CHOOSE i \in 1..Len(s) : s[i] = x /\ \A k \in 1..(i - 1) : s[k] # x

\* The last element of x that occurs in y, else None.
RECURSIVE _get_common_ancestor_farthest(_, _)
_get_common_ancestor_farthest(x, y) ==
    IF x = <<>> THEN None
    ELSE LET later == _get_common_ancestor_farthest(Tail(x), y)
         IN  IF later # None THEN later
             ELSE IF \E i \in 1..Len(y) : y[i] = Head(x) THEN Head(x)
             ELSE None

\* _get_common_ancestor: the first element of x that occurs in y, else None.
RECURSIVE _get_common_ancestor(_, _)
_get_common_ancestor(x, y) ==
    IF x = <<>> THEN None
    ELSE IF InSeq(Head(x), y) THEN Head(x)
    ELSE _get_common_ancestor(Tail(x), y)

Reverse(s) == [i \in 1..Len(s) |-> s[Len(s) + 1 - i]]

-----------------------------------------------------------------------------
(* Guard and ConditionalJunction.                                          *)

\* The condition is ignored.
Guard_evaluate_unconditional(guard, pv) == guard.state

\* Guard.evaluate: the guarded state if the condition holds, else None.
Guard_evaluate(guard, pv) ==
    IF pv[guard.condition] THEN guard.state ELSE None

\* ConditionalJunction.evaluate on the fields (default, conditions): scans the
\* conditions from index i on; returns the state and the predicates it called.
RECURSIVE evaluate_from(_, _, _, _)
evaluate_from(default, conditions, i, pv) ==
    IF i > Len(conditions) THEN [state |-> default, called |-> <<>>]
    ELSE IF pv[conditions[i].condition]
         THEN [state |-> conditions[i].state,
               called |-> << <<conditions[i].condition, TRUE>> >>]
         ELSE LET rest == evaluate_from(default, conditions, i + 1, pv)
              IN  [state |-> rest.state,
                   called |-> << <<conditions[i].condition, FALSE>> >> \o rest.called]

\* A scan from the last condition to the first: the last true condition wins.
evaluate_last_true(default, conditions, pv) ==
    evaluate_from(default, Reverse(conditions), 1, pv)

evaluate(default, conditions, pv) == evaluate_from(default, conditions, 1, pv)

-----------------------------------------------------------------------------
(* StateMachine.  A machine value m is a record of the fields a call reads *)
(* and writes: cur, deep, shallow, and the call's hooks, evals and result. *)

\* One callback invocation, recorded with the value of _current_state at that time.
Invoke(m, hook, of) ==
    [m EXCEPT !.hooks = Append(@, [hook |-> hook, of |-> of, cur |-> m.cur])]

\* Reaching the root without a match answers the root instead of raising.
RECURSIVE _get_handling_state_no_raise(_, _)
_get_handling_state_no_raise(event, handling_state) ==
    IF transitions(handling_state, event).type # "absent" THEN handling_state
    ELSE IF parent(handling_state) # None
         THEN _get_handling_state_no_raise(event, parent(handling_state))
         ELSE handling_state

\* The farthest node from origin_state upward whose table has the event.
RECURSIVE _get_handling_state_outermost(_, _)
_get_handling_state_outermost(event, handling_state) ==
    LET above == IF parent(handling_state) # None
                 THEN _get_handling_state_outermost(event, parent(handling_state))
                 ELSE None
    IN  IF above # None THEN above
        ELSE IF transitions(handling_state, event).type # "absent" THEN handling_state
        ELSE None

\* _get_handling_state: the nearest node from origin_state upward whose table
\* has the event; None stands for raising SMEventNotHandledException.
RECURSIVE _get_handling_state(_, _)
_get_handling_state(event, handling_state) ==
    IF transitions(handling_state, event).type # "absent" THEN handling_state
    ELSE IF parent(handling_state) # None
         THEN _get_handling_state(event, parent(handling_state))
         ELSE None

\* The short-circuit is never taken.
_is_internal_transition_never(proxy_destination) == FALSE

_is_internal_transition(proxy_destination) == proxy_destination = None

\* _get_final_destination: follow super-states by their preferred entry.
RECURSIVE _get_final_destination(_, _, _, _)
_get_final_destination(final_destination, pe, deep, shallow) ==
    IF final_destination \notin SuperStates THEN final_destination
    ELSE IF pe[final_destination] = STARTING_STATE
         THEN _get_final_destination(starting_state(final_destination), pe, deep, shallow)
    ELSE IF pe[final_destination] = DEEP_HISTORY
         THEN _get_final_destination(deep[final_destination], pe, deep, shallow)
    ELSE _get_final_destination(shallow[final_destination], pe, deep, shallow)

\* _figure_out_ancestry, reading node.parent from `links`.
_figure_out_ancestry_by(links, origin_state, final_destination) ==
    _get_common_ancestor(_get_ancestors_by(links, origin_state),
                         _get_ancestors_by(links, final_destination))

\* A transition of a node to itself has no common ancestor: the whole branch
\* is exited and entered again.
_figure_out_ancestry_whole_branch(origin_state, final_destination) ==
    IF origin_state = final_destination THEN None
    ELSE _figure_out_ancestry_by(Tree.parent, origin_state, final_destination)

_figure_out_ancestry(origin_state, final_destination) ==
    _figure_out_ancestry_by(Tree.parent, origin_state, final_destination)

\* Deep history receives the child exited through, like shallow history.
RECURSIVE _proceess_uncommon_origin_ancestors_deep_child(_, _, _, _)
_proceess_uncommon_origin_ancestors_deep_child(m, uncommon_origin_ancestors, origin_state, child_state) ==
    IF uncommon_origin_ancestors = <<>> THEN m
    ELSE LET state == Head(uncommon_origin_ancestors)
             m1 == Invoke(m, "on_exit", state)
             m2 == [m1 EXCEPT !.deep[state] = child_state,
                              !.shallow[state] = child_state]
         IN  _proceess_uncommon_origin_ancestors_deep_child(
                 m2, Tail(uncommon_origin_ancestors), origin_state, state)

\* child_state is never advanced: shallow history receives the origin state.
RECURSIVE _proceess_uncommon_origin_ancestors_shallow_origin(_, _, _, _)
_proceess_uncommon_origin_ancestors_shallow_origin(m, uncommon_origin_ancestors, origin_state, child_state) ==
    IF uncommon_origin_ancestors = <<>> THEN m
    ELSE LET state == Head(uncommon_origin_ancestors)
             m1 == Invoke(m, "on_exit", state)
             m2 == [m1 EXCEPT !.deep[state] = origin_state,
                              !.shallow[state] = child_state]
         IN  _proceess_uncommon_origin_ancestors_shallow_origin(
                 m2, Tail(uncommon_origin_ancestors), origin_state, child_state)

\* The ancestors are exited but no history is written.
RECURSIVE _proceess_uncommon_origin_ancestors_no_write(_, _, _, _)
_proceess_uncommon_origin_ancestors_no_write(m, uncommon_origin_ancestors, origin_state, child_state) ==
    IF uncommon_origin_ancestors = <<>> THEN m
    ELSE LET state == Head(uncommon_origin_ancestors)
         IN  _proceess_uncommon_origin_ancestors_no_write(
                 Invoke(m, "on_exit", state), Tail(uncommon_origin_ancestors),
                 origin_state, state)

\* _proceess_uncommon_origin_ancestors: exit each ancestor and write its history.
RECURSIVE _proceess_uncommon_origin_ancestors(_, _, _, _)
_proceess_uncommon_origin_ancestors(m, uncommon_origin_ancestors, origin_state, child_state) ==
    IF uncommon_origin_ancestors = <<>> THEN m
    ELSE LET state == Head(uncommon_origin_ancestors)
             m1 == Invoke(m, "on_exit", state)
             m2 == [m1 EXCEPT !.deep[state] = origin_state,
                              !.shallow[state] = child_state]
         IN  _proceess_uncommon_origin_ancestors(
                 m2, Tail(uncommon_origin_ancestors), origin_state, state)

Uncommon(ancestry, common_ancestor) ==
    IF common_ancestor = None THEN ancestry
    ELSE SubSeq(ancestry, 1, IndexOf(common_ancestor, ancestry) - 1)

\* The common ancestor is exited as well.
_exit_current_state_through_common(m, origin_state, common_ancestor) ==
    LET ancestry == _get_ancestors(origin_state)
        uncommon_origin_ancestors ==
            IF common_ancestor = None THEN ancestry
            ELSE SubSeq(ancestry, 1, IndexOf(common_ancestor, ancestry))
        m1 == IF origin_state # None THEN Invoke(m, "on_exit", origin_state) ELSE m
    IN  _proceess_uncommon_origin_ancestors(
            m1, uncommon_origin_ancestors, origin_state, origin_state)

_exit_current_state(m, origin_state, common_ancestor) ==
    LET uncommon_origin_ancestors == Uncommon(_get_ancestors(origin_state), common_ancestor)
        m1 == IF origin_state # None THEN Invoke(m, "on_exit", origin_state) ELSE m
    IN  _proceess_uncommon_origin_ancestors(
            m1, uncommon_origin_ancestors, origin_state, origin_state)

RECURSIVE InvokeAll(_, _, _)
InvokeAll(m, hook, states) ==
    IF states = <<>> THEN m
    ELSE InvokeAll(Invoke(m, hook, Head(states)), hook, Tail(states))

\* The destination's ancestors are entered innermost first.
_enter_destination_state_innermost_first(m, final_destination, common_ancestor) ==
    LET uncommon_destination_ancestors ==
            Uncommon(_get_ancestors(final_destination), common_ancestor)
        m1 == InvokeAll(m, "on_entry", uncommon_destination_ancestors)
    IN  IF final_destination = None
        THEN [m1 EXCEPT !.result = "AttributeError"]
        ELSE Invoke(m1, "on_entry", final_destination)

\* _enter_destination_state: None has no on_entry, which raises AttributeError.
_enter_destination_state(m, final_destination, common_ancestor) ==
    LET uncommon_destination_ancestors ==
            Reverse(Uncommon(_get_ancestors(final_destination), common_ancestor))
        m1 == InvokeAll(m, "on_entry", uncommon_destination_ancestors)
    IN  IF final_destination = None
        THEN [m1 EXCEPT !.result = "AttributeError"]
        ELSE Invoke(m1, "on_entry", final_destination)

\* Only the new current state and the machine are enforced.
_enforce_all_relevant_states_no_ancestors(m, final_destination) ==
    Invoke(Invoke(m, "enforce", m.cur), "enforce", Machine)

_enforce_all_relevant_states(m, final_destination) ==
    LET m1 == Invoke(m, "enforce", m.cur)
        m2 == InvokeAll(m1, "enforce", _get_ancestors(final_destination))
    IN  Invoke(m2, "enforce", Machine)

\* transition_directly_to_state, with its recursive call on a junction.
RECURSIVE transition_directly_to_state(_, _, _, _)
transition_directly_to_state(m, final_destination, event, pv) ==
    LET origin_state == m.cur
        common_ancestor ==
            IF origin_state # None
            THEN _figure_out_ancestry(origin_state, final_destination)
            ELSE None
        m1 == IF event # None THEN Invoke(m, "on_before_transition", event) ELSE m
        m2 == _exit_current_state(m1, origin_state, common_ancestor)
        m3 == IF event # None THEN Invoke(m2, "on_during_transition", event) ELSE m2
        m4 == _enter_destination_state(m3, final_destination, common_ancestor)
        m5 == [m4 EXCEPT !.cur = final_destination]
        m6 == IF event # None THEN Invoke(m5, "on_after_transition", event) ELSE m5
        m7 == _enforce_all_relevant_states(m6, final_destination)
    IN  IF m4.result # "ok" THEN m4
        ELSE IF final_destination \in Junctions
             THEN LET e == evaluate(default_state(final_destination),
                                    condition_list(final_destination), pv)
                  IN  transition_directly_to_state(
                          [m7 EXCEPT !.evals = @ \o e.called], e.state, None, pv)
             ELSE m7

\* What process_event resolves before it transitions: the handling state, the
\* table value, the proxy destination and the predicates called on the way.
Resolve(origin_state, event, pv) ==
    LET handling_state == _get_handling_state(event, origin_state)
        value == IF handling_state = None THEN Absent
                 ELSE transitions(handling_state, event)
    IN  [handling_state |-> handling_state,
         value |-> value,
         proxy_destination |->
            IF value.type = "guard" THEN Guard_evaluate(value, pv) ELSE value.state,
         called |->
            IF value.type = "guard"
            THEN << <<value.condition, pv[value.condition]>> >>
            ELSE <<>>]

\* process_event on machine m (its hooks and evals empty, its result "ok").
process_event(m, pe, event, pv) ==
    LET r == Resolve(m.cur, event, pv)
        m1 == [m EXCEPT !.evals = r.called]
    IN  IF r.handling_state = None
        THEN [m EXCEPT !.result = "SMEventNotHandledException"]
        ELSE IF _is_internal_transition(r.proxy_destination) THEN m1
        ELSE transition_directly_to_state(
                 m1,
                 _get_final_destination(r.proxy_destination, pe, m.deep, m.shallow),
                 event, pv)

-----------------------------------------------------------------------------
(* The state machine as a transition system.                               *)

NoHistory == [s \in SuperStates |-> None]
DefaultEntry == [s \in SuperStates |-> STARTING_STATE]

\* The fields before StateMachine.__init__ transitions to the starting state.
NewMachine ==
    [cur |-> None, deep |-> NoHistory, shallow |-> NoHistory,
     hooks |-> <<>>, evals |-> <<>>, result |-> "ok"]

\* StateMachine.__init__: transition directly to the starting state, no event.
StateMachine(starting, pv) ==
    transition_directly_to_state(NewMachine, starting, None, pv)

Fresh(cur, deep, shallow) ==
    [cur |-> cur, deep |-> deep, shallow |-> shallow,
     hooks |-> <<>>, evals |-> <<>>, result |-> "ok"]

CallRecord(op, event, r, final) ==
    [op |-> op, event |-> event, handling_state |-> r.handling_state,
     value |-> r.value, proxy_destination |-> r.proxy_destination,
     final_destination |-> final]

NoResolve == [handling_state |-> None, value |-> Absent, proxy_destination |-> None]

\* The positions in a hook sequence where node n's on_exit ran.
ExitsOf(hs, n) == {i \in 1..Len(hs) : hs[i].hook = "on_exit" /\ hs[i].of = n}

Last(S) == CHOOSE i \in S : \A k \in S : k <= i

\* _current_state at the last on_exit of super-state s in hs, else the old value.
ExitLeafAfter(hs, old) ==
    [s \in SuperStates |->
        IF ExitsOf(hs, s) = {} THEN old[s] ELSE hs[Last(ExitsOf(hs, s))].cur]

\* The node exited just before the last on_exit of super-state s in hs.
ExitChildAfter(hs, old) ==
    [s \in SuperStates |->
        IF ExitsOf(hs, s) = {} THEN old[s]
        ELSE LET i == Last(ExitsOf(hs, s))
             IN  IF i > 1 /\ hs[i - 1].hook = "on_exit" THEN hs[i - 1].of ELSE None]

NoJunction == [default_state |-> None, condition_list |-> <<>>]
NoEnv == [p \in Preds |-> FALSE]

Threads == {"t1", "t2"}

\* No _figure_out_ancestry call was made on its own.
NoAncestry == [origin |-> None, destination |-> None, common_ancestor |-> None]

\* An RLock nobody holds.
Unlocked == [owner |-> None, count |-> 0]

NoHook == [hook |-> None, of |-> None]

\* No process_event call has ended since the last one began.
NoEnded ==
    [thread |-> None, serial |-> 0, event |-> None, origin |-> None, final |-> None,
     result |-> None, failed |-> NoHook, reentered |-> FALSE, waited |-> FALSE,
     depth |-> 0, start |-> None, pv |-> NoEnv]

\* The tree is built, and no thread has called process_event yet.
Constructed ==
    /\ attached = Tree
    /\ ancestry_call = NoAncestry
    /\ stack = [t \in Threads |-> <<>>]
    /\ lock = Unlocked
    /\ calls = 0
    /\ ended = NoEnded

Observe(m) ==
    /\ current_state' = m.cur
    /\ deep_history' = m.deep
    /\ shallow_history' = m.shallow
    /\ hooks' = m.hooks
    /\ evals' = m.evals
    /\ result' = m.result

\* The predicates a junction's evaluate() can call, through junctions it leads to.
RECURSIVE JunctionPreds(_)
JunctionPreds(j) ==
    LET conditions == condition_list(j)
        next == ({conditions[i].state : i \in 1..Len(conditions)} \cup {default_state(j)})
                    \cap Junctions
    IN  {conditions[i].condition : i \in 1..Len(conditions)}
            \cup UNION {JunctionPreds(k) : k \in next}

\* The values the predicates may take during a call that can only evaluate the
\* predicates in `called`: a predicate the call never evaluates is fixed to FALSE.
ValuationsOver(called) ==
    {pv \in Valuations : \A p \in Preds \ called : ~pv[p]}

\* The predicates process_event(event) can evaluate from the present state: the
\* Guard in the handling state's table and the junctions the destination leads to.
CallPreds(event) ==
    LET r == Resolve(current_state, event, [p \in Preds |-> TRUE])
        final == IF r.proxy_destination = None THEN None
                 ELSE _get_final_destination(r.proxy_destination, preferred_entry,
                                             deep_history, shallow_history)
    IN  (IF r.value.type = "guard" THEN {r.value.condition} ELSE {})
            \cup (IF final \in Junctions THEN JunctionPreds(final) ELSE {})

Init ==
    /\ Constructed
    /\ \E starting \in Nodes :
      \E pv \in ValuationsOver(IF starting \in Junctions THEN JunctionPreds(starting) ELSE {}) :
        LET m == StateMachine(starting, pv)
        IN  /\ current_state = m.cur
            /\ deep_history = m.deep
            /\ shallow_history = m.shallow
            /\ hooks = m.hooks
            /\ evals = m.evals
            /\ result = m.result
            /\ preferred_entry = DefaultEntry
            /\ entry_changes = 0
            /\ call = CallRecord("__init__", None, NoResolve, starting)
            /\ exit_leaf = ExitLeafAfter(m.hooks, NoHistory)
            /\ exit_child = ExitChildAfter(m.hooks, NoHistory)
            /\ junction = NoJunction
            /\ env = NoEnv
            /\ returned = None

\* machine.process_event(event), with the predicates' values pv during the call.
ProcessEvent(event, pv) ==
    LET m0 == Fresh(current_state, deep_history, shallow_history)
        r == Resolve(current_state, event, pv)
        m == process_event(m0, preferred_entry, event, pv)
    IN  /\ Observe(m)
        /\ call' = CallRecord("process_event", event, r,
                     IF r.proxy_destination = None THEN None
                     ELSE _get_final_destination(r.proxy_destination, preferred_entry,
                                                 deep_history, shallow_history))
        /\ exit_leaf' = ExitLeafAfter(m.hooks, exit_leaf)
        /\ exit_child' = ExitChildAfter(m.hooks, exit_child)
        /\ UNCHANGED <<preferred_entry, entry_changes, junction, env, returned>>
        /\ UNCHANGED <<treeVars, threadVars>>

\* The application assigns a super-state's _preferred_entry.
SetPreferredEntry(s, mode) ==
    /\ entry_changes < MaxEntryChanges
    /\ preferred_entry[s] # mode
    /\ preferred_entry' = [preferred_entry EXCEPT ![s] = mode]
    /\ entry_changes' = entry_changes + 1
    /\ call' = CallRecord("_preferred_entry", None, NoResolve, None)
    /\ hooks' = <<>>
    /\ evals' = <<>>
    /\ result' = "ok"
    /\ UNCHANGED <<current_state, deep_history, shallow_history,
                   exit_leaf, exit_child, junction, env, returned>>
    /\ UNCHANGED <<treeVars, threadVars>>

Next ==
    \/ \E event \in Events : \E pv \in ValuationsOver(CallPreds(event)) :
            ProcessEvent(event, pv)
    \/ \E s \in SuperStates, mode \in EntryModes : SetPreferredEntry(s, mode)

Spec == Init /\ [][Next]_vars

-----------------------------------------------------------------------------
(* ConditionalJunction.evaluate() on its own: any junction with up to      *)
(* MaxConditions conditions, called directly under any predicate values.   *)

EvalStates == {"b", "c", "aab"}
EvalPreds == {"q1", "q2", "q3"}

\* What add_condition can build: every list of up to n (condition, state) pairs.
RECURSIVE ConditionLists(_)
ConditionLists(n) ==
    IF n = 0 THEN {<<>>}
    ELSE LET shorter == ConditionLists(n - 1)
         IN  shorter \cup
             {Append(l, Condition(p, d)) :
                 l \in {x \in shorter : Len(x) = n - 1}, p \in EvalPreds, d \in EvalStates}

InitEval ==
    /\ Constructed
    /\ LET m == StateMachine("abb", NoEnv)
       IN
        /\ junction \in [default_state : EvalStates,
                         condition_list : ConditionLists(MaxConditions)]
        /\ current_state = m.cur
        /\ deep_history = m.deep
        /\ shallow_history = m.shallow
        /\ hooks = m.hooks
        /\ evals = m.evals
        /\ result = m.result
        /\ preferred_entry = DefaultEntry
        /\ entry_changes = 0
        /\ call = CallRecord("__init__", None, NoResolve, "abb")
        /\ exit_leaf = NoHistory
        /\ exit_child = NoHistory
        /\ env = NoEnv
        /\ returned = None

\* junction.evaluate(), with the predicates' values pv during the call.
Evaluate(pv) ==
    LET e == evaluate(junction.default_state, junction.condition_list, pv)
    IN  /\ returned' = e.state
        /\ evals' = e.called
        /\ env' = pv
        /\ call' = CallRecord("evaluate", None, NoResolve, None)
        /\ hooks' = <<>>
        /\ result' = "ok"
        /\ UNCHANGED <<junction, current_state, deep_history, shallow_history,
                       preferred_entry, entry_changes, exit_leaf, exit_child>>
        /\ UNCHANGED <<treeVars, threadVars>>

NextEval == \E pv \in ValuationsOver(EvalPreds) : Evaluate(pv)

SpecEval == InitEval /\ [][NextEval]_vars

-----------------------------------------------------------------------------
(* The construction of a tree, before any machine exists: states are       *)
(* attached to super-states one add_to_super_state call at a time, and     *)
(* _figure_out_ancestry is called on two leaves of the tree built so far.  *)

TreeNodes == SuperStates \cup {"aaa", "aab", "aba", "b"}
TreeLeaves == TreeNodes \ SuperStates

Attached(t) == {n \in Nodes : t.parent[n] # None}

InitTree ==
    /\ attached = NewTree
    /\ ancestry_call = NoAncestry
    /\ stack = [t \in Threads |-> <<>>]
    /\ lock = Unlocked
    /\ calls = 0
    /\ ended = NoEnded
    /\ current_state = None
    /\ deep_history = NoHistory
    /\ shallow_history = NoHistory
    /\ hooks = <<>>
    /\ evals = <<>>
    /\ result = "ok"
    /\ preferred_entry = DefaultEntry
    /\ entry_changes = 0
    /\ call = CallRecord("new", None, NoResolve, None)
    /\ exit_leaf = NoHistory
    /\ exit_child = NoHistory
    /\ junction = NoJunction
    /\ env = NoEnv
    /\ returned = None

\* child.add_to_super_state(super): child has no parent yet and is not above super.
AddToSuperState(child, super) ==
    /\ Cardinality(Attached(attached)) < MaxAttachments
    /\ attached.parent[child] = None
    /\ child # super
    /\ ~InSeq(child, _get_ancestors_by(attached.parent, super))
    /\ attached' = add_to_super_state(attached, child, super)
    /\ ancestry_call' = NoAncestry
    /\ call' = CallRecord("add_to_super_state", None, NoResolve, None)
    /\ UNCHANGED <<current_state, deep_history, shallow_history, preferred_entry,
                   entry_changes, hooks, evals, result, exit_leaf, exit_child,
                   junction, env, returned, threadVars>>

\* _figure_out_ancestry(A, B) on the tree as built.
FigureOutAncestry(A, B) ==
    /\ ancestry_call' =
            [origin |-> A, destination |-> B,
             common_ancestor |-> _figure_out_ancestry_by(attached.parent, A, B)]
    /\ call' = CallRecord("_figure_out_ancestry", None, NoResolve, None)
    /\ UNCHANGED <<attached, current_state, deep_history, shallow_history,
                   preferred_entry, entry_changes, hooks, evals, result, exit_leaf,
                   exit_child, junction, env, returned, threadVars>>

NextTree ==
    \/ \E child \in TreeNodes, super \in SuperStates : AddToSuperState(child, super)
    \/ \E A \in TreeLeaves, B \in TreeLeaves : FigureOutAncestry(A, B)

SpecTree == InitTree /\ [][NextTree]_vars

-----------------------------------------------------------------------------
(* process_event hook by hook.  Threads share one machine; a call blocks   *)
(* in `with self._lock` until it may enter, then runs from one hook        *)
(* invocation to the next.  While a hook is in progress it may return,     *)
(* raise, or call process_event itself.  A call in flight is a frame: the  *)
(* locals of process_event and transition_directly_to_state, the hooks     *)
(* still to invoke, and the lock levels its `with` blocks hold.            *)

\* RLock.acquire blocks whatever thread asks, the owner included (a plain Lock).
CanAcquire_not_reentrant(l, t) == l.owner = None

\* acquire never blocks.
CanAcquire_never_blocks(l, t) == TRUE

\* RLock.acquire returns at once for the owner and when nobody holds the lock.
CanAcquire(l, t) == l.owner = None \/ l.owner = t

\* n nested `with self._lock` entered by thread t.
Acquire(l, t, n) == [owner |-> t, count |-> l.count + n]

\* An exception leaves the innermost `with self._lock` only.
Release_innermost(l, n) ==
    IF l.count <= 1 THEN Unlocked ELSE [owner |-> l.owner, count |-> l.count - 1]

\* n nested `with self._lock` left, normally or by an exception.
Release(l, n) ==
    IF l.count <= n THEN Unlocked ELSE [owner |-> l.owner, count |-> l.count - n]

\* self._current_state, read when the hook is invoked.
Current == "_current_state"

\* A hook to invoke; when it has returned, the history write or the commit of
\* _current_state that follows it in the code.
Hook(hook, of) ==
    [hook |-> hook, of |-> of, deep |-> None, shallow |-> None, commit |-> FALSE]

\* _proceess_uncommon_origin_ancestors: each on_exit with the write after it.
RECURSIVE ExitSteps(_, _, _)
ExitSteps(uncommon_origin_ancestors, origin_state, child_state) ==
    IF uncommon_origin_ancestors = <<>> THEN <<>>
    ELSE LET state == Head(uncommon_origin_ancestors)
         IN  << [hook |-> "on_exit", of |-> state, deep |-> origin_state,
                 shallow |-> child_state, commit |-> FALSE] >>
             \o ExitSteps(Tail(uncommon_origin_ancestors), origin_state, state)

\* The hooks of one run of transition_directly_to_state, in program order.  A
\* destination None ends the list at None.on_entry(), which raises.
TransitionSteps(origin_state, final_destination, event) ==
    LET common_ancestor ==
            IF origin_state # None
            THEN _figure_out_ancestry(origin_state, final_destination)
            ELSE None
        uncommon_origin_ancestors == Uncommon(_get_ancestors(origin_state), common_ancestor)
        uncommon_destination_ancestors ==
            Reverse(Uncommon(_get_ancestors(final_destination), common_ancestor))
        destination_ancestry == _get_ancestors(final_destination)
    IN  (IF event # None THEN <<Hook("on_before_transition", event)>> ELSE <<>>)
        \o (IF origin_state # None THEN <<Hook("on_exit", origin_state)>> ELSE <<>>)
        \o ExitSteps(uncommon_origin_ancestors, origin_state, origin_state)
        \o (IF event # None THEN <<Hook("on_during_transition", event)>> ELSE <<>>)
        \o [i \in 1..Len(uncommon_destination_ancestors) |->
                Hook("on_entry", uncommon_destination_ancestors[i])]
        \o << [Hook("on_entry", final_destination) EXCEPT !.commit = TRUE] >>
        \o (IF final_destination = None THEN <<>>
            ELSE (IF event # None THEN <<Hook("on_after_transition", event)>> ELSE <<>>)
                 \o <<Hook("enforce", Current)>>
                 \o [i \in 1..Len(destination_ancestry) |->
                        Hook("enforce", destination_ancestry[i])]
                 \o <<Hook("enforce", Machine)>>)

\* A call blocked in process_event's `with self._lock`.
Waiting(serial, waited) ==
    [status |-> "waiting", serial |-> serial, waited |-> waited, event |-> None,
     pv |-> NoEnv, origin |-> None, final |-> None, target |-> None,
     steps |-> <<>>, pc |-> 0, held |-> 0, reentered |-> FALSE, start |-> None]

Top(t) == stack[t][Len(stack[t])]

Running(t) == \E i \in 1..Len(stack[t]) : stack[t][i].status = "running"

RECURSIVE Held(_)
Held(frames) == IF frames = <<>> THEN 0 ELSE Head(frames).held + Held(Tail(frames))

\* The record of one hook invocation by thread t.
Invoked(t, frame, depth, step, cur) ==
    [hook |-> step.hook, of |-> IF step.of = Current THEN cur ELSE step.of,
     cur |-> cur, thread |-> t, serial |-> frame.serial, depth |-> depth]

\* How the outermost call of thread t ended, normally or by the exception exc
\* raised while the hook `failed` was in progress.
Ended(t, outer, exc, failed) ==
    [thread |-> t, serial |-> outer.serial, event |-> outer.event,
     origin |-> outer.origin, final |-> outer.final, result |-> exc,
     failed |-> failed, reentered |-> outer.reentered, waited |-> outer.waited,
     depth |-> Len(stack[t]), start |-> outer.start, pv |-> outer.pv]

\* An exception leaves every call of thread t: each `with` releases the lock, and
\* nothing is rolled back.
Unwind(t, outer, exc, failed) ==
    /\ stack' = [stack EXCEPT ![t] = <<>>]
    /\ lock' = Release(lock, Held(stack[t]))
    /\ result' = exc
    /\ ended' = Ended(t, outer, exc, failed)

\* Thread t calls process_event: from the application when it has no call in
\* flight, else from the hook in progress.
Request(t) ==
    /\ calls < MaxCalls
    /\ Len(stack[t]) < MaxDepth
    /\ stack[t] # <<>> => Top(t).status = "running"
    /\ calls' = calls + 1
    /\ stack' = [stack EXCEPT ![t] =
            (IF stack[t] = <<>> THEN <<>>
             ELSE [i \in 1..Len(stack[t]) |-> [stack[t][i] EXCEPT !.reentered = TRUE]])
            \o <<Waiting(calls + 1, lock.owner \notin {None, t})>>]
    /\ UNCHANGED <<current_state, deep_history, shallow_history, preferred_entry,
                   entry_changes, call, hooks, evals, result, exit_leaf, exit_child,
                   junction, env, returned, treeVars, lock, ended>>

\* The hook of frame f that has been invoked and has not returned.
HookInProgress(f) ==
    [hook |-> f.steps[f.pc].hook,
     of |-> IF f.steps[f.pc].of = Current THEN current_state ELSE f.steps[f.pc].of]

\* What no step of a call changes.
Untouched ==
    UNCHANGED <<preferred_entry, entry_changes, junction, env, returned, treeVars, calls>>

\* The call thread t is blocked in acquires the lock and runs to its first hook:
\* the handler lookup, the Guard, the final destination, event.before invoked.
Enter(t, event, pv) ==
    /\ stack[t] # <<>>
    /\ Top(t).status = "waiting"
    /\ CanAcquire(lock, t)
    /\ LET depth == Len(stack[t])
           below == SubSeq(stack[t], 1, depth - 1)
           origin_state == current_state
           r == Resolve(origin_state, event, pv)
           final == IF r.proxy_destination = None THEN None
                    ELSE _get_final_destination(r.proxy_destination, preferred_entry,
                                                deep_history, shallow_history)
           steps == TransitionSteps(origin_state, final, event)
           entered == [Top(t) EXCEPT
                          !.status = "running", !.event = event, !.pv = pv,
                          !.origin = origin_state, !.final = final, !.target = final,
                          !.steps = steps, !.pc = 1, !.held = 2,
                          !.start = [cur |-> current_state, deep |-> deep_history,
                                     shallow |-> shallow_history]]
           outer == IF depth = 1 THEN [entered EXCEPT !.final = None] ELSE stack[t][1]
           failed == IF depth = 1 THEN NoHook ELSE HookInProgress(stack[t][depth - 1])
           log == IF depth = 1 THEN <<>> ELSE hooks
           seen == IF depth = 1 THEN <<>> ELSE evals
       IN  IF origin_state \in Junctions
           THEN \* a ConditionalJunction has no transitions attribute
                /\ Unwind(t, outer, "AttributeError", failed)
                /\ call' = CallRecord("process_event", event, NoResolve, None)
                /\ hooks' = log
                /\ evals' = seen
                /\ UNCHANGED <<current_state, deep_history, shallow_history,
                               exit_leaf, exit_child>>
           ELSE IF r.handling_state = None
           THEN /\ Unwind(t, outer, "SMEventNotHandledException", failed)
                /\ call' = CallRecord("process_event", event, r, final)
                /\ hooks' = log
                /\ evals' = seen
                /\ UNCHANGED <<current_state, deep_history, shallow_history,
                               exit_leaf, exit_child>>
           ELSE IF _is_internal_transition(r.proxy_destination)
           THEN /\ stack' = [stack EXCEPT ![t] = below]
                /\ call' = CallRecord("process_event", event, r, final)
                /\ hooks' = log
                /\ evals' = seen \o r.called
                /\ result' = IF depth = 1 THEN "ok" ELSE result
                /\ ended' = IF depth = 1 THEN Ended(t, outer, "ok", NoHook) ELSE ended
                /\ UNCHANGED <<current_state, deep_history, shallow_history,
                               exit_leaf, exit_child, lock>>
           ELSE /\ stack' = [stack EXCEPT ![t] = below \o <<entered>>]
                /\ lock' = Acquire(lock, t, 2)
                /\ call' = CallRecord("process_event", event, r, final)
                /\ hooks' = Append(log, Invoked(t, entered, depth, steps[1], current_state))
                /\ evals' = seen \o r.called
                /\ result' = "running"
                /\ ended' = NoEnded
                /\ UNCHANGED <<current_state, deep_history, shallow_history,
                               exit_leaf, exit_child>>
    /\ Untouched

\* The hook in progress on thread t returns.  The call makes the write that
\* follows it and goes on to the next hook; after the last hook of a transition
\* to a junction it evaluates the junction and transitions again; else it returns.
Return(t) ==
    /\ stack[t] # <<>>
    /\ Top(t).status = "running"
    /\ LET depth == Len(stack[t])
           below == SubSeq(stack[t], 1, depth - 1)
           f == Top(t)
           step == f.steps[f.pc]
           cur == IF step.commit THEN step.of ELSE current_state
       IN  /\ current_state' = cur
           /\ deep_history' = IF step.deep = None THEN deep_history
                              ELSE [deep_history EXCEPT ![step.of] = step.deep]
           /\ shallow_history' = IF step.deep = None THEN shallow_history
                                 ELSE [shallow_history EXCEPT ![step.of] = step.shallow]
           /\ IF f.pc < Len(f.steps)
              THEN LET next == f.steps[f.pc + 1]
                   IN  IF next.of = None
                       THEN \* None.on_entry()
                            /\ Unwind(t, stack[t][1], "AttributeError", NoHook)
                            /\ UNCHANGED <<hooks, evals>>
                       ELSE /\ stack' = [stack EXCEPT ![t] =
                                            below \o <<[f EXCEPT !.pc = @ + 1]>>]
                            /\ hooks' = Append(hooks, Invoked(t, f, depth, next, cur))
                            /\ UNCHANGED <<lock, result, ended, evals>>
              ELSE IF f.target \in Junctions
              THEN LET e == evaluate(default_state(f.target), condition_list(f.target), f.pv)
                       steps == TransitionSteps(cur, e.state, None)
                       g == [f EXCEPT !.target = e.state, !.steps = steps,
                                      !.pc = 1, !.held = @ + 1]
                   IN  /\ stack' = [stack EXCEPT ![t] = below \o <<g>>]
                       /\ lock' = Acquire(lock, t, 1)
                       /\ hooks' = Append(hooks, Invoked(t, g, depth, steps[1], cur))
                       /\ evals' = evals \o e.called
                       /\ UNCHANGED <<result, ended>>
              ELSE /\ stack' = [stack EXCEPT ![t] = below]
                   /\ lock' = Release(lock, f.held)
                   /\ result' = IF depth = 1 THEN "ok" ELSE result
                   /\ ended' = IF depth = 1 THEN Ended(t, f, "ok", NoHook) ELSE ended
                   /\ UNCHANGED <<hooks, evals>>
    /\ exit_leaf' = ExitLeafAfter(hooks', exit_leaf)
    /\ exit_child' = ExitChildAfter(hooks', exit_child)
    /\ UNCHANGED call
    /\ Untouched

\* The hook in progress on thread t raises: the exception leaves every call of
\* the thread, and what the calls have written so far stays.
Raise(t) ==
    /\ stack[t] # <<>>
    /\ Top(t).status = "running"
    /\ Unwind(t, stack[t][1], "HookError", HookInProgress(Top(t)))
    /\ UNCHANGED <<current_state, deep_history, shallow_history, hooks, evals,
                   call, exit_leaf, exit_child>>
    /\ Untouched

\* The call thread t is blocked in acquires the lock, finds a Guard in the
\* handling state's table, and the Guard's condition raises: the exception
\* leaves process_event's `with self._lock` before any hook has run.
GuardRaises(t, event) ==
    /\ stack[t] # <<>>
    /\ Top(t).status = "waiting"
    /\ CanAcquire(lock, t)
    /\ current_state \notin Junctions
    /\ LET depth == Len(stack[t])
           r == Resolve(current_state, event, NoEnv)
           outer == IF depth = 1
                    THEN [Top(t) EXCEPT !.event = event, !.origin = current_state,
                             !.start = [cur |-> current_state, deep |-> deep_history,
                                        shallow |-> shallow_history]]
                    ELSE stack[t][1]
           failed == IF depth = 1 THEN NoHook ELSE HookInProgress(stack[t][depth - 1])
       IN  /\ r.value.type = "guard"
           /\ Unwind(t, outer, "PredicateError", failed)
           /\ call' = CallRecord("process_event", event,
                                 [r EXCEPT !.proxy_destination = None], None)
           /\ hooks' = IF depth = 1 THEN <<>> ELSE hooks
           /\ evals' = IF depth = 1 THEN <<>> ELSE evals
    /\ UNCHANGED <<current_state, deep_history, shallow_history, exit_leaf, exit_child>>
    /\ Untouched

\* The last hook of a transition to a junction has returned, and a condition of
\* the junction raises in evaluate(): the exception leaves every call of the
\* thread, with the junction committed as _current_state.
JunctionRaises(t) ==
    /\ stack[t] # <<>>
    /\ Top(t).status = "running"
    /\ Top(t).pc = Len(Top(t).steps)
    /\ Top(t).target \in Junctions
    /\ condition_list(Top(t).target) # <<>>
    /\ Unwind(t, stack[t][1], "PredicateError", NoHook)
    /\ UNCHANGED <<current_state, deep_history, shallow_history, hooks, evals,
                   call, exit_leaf, exit_child>>
    /\ Untouched

\* The machine is constructed on a simple state, by one thread, before it is shared.
InitThreads == Init /\ call.final_destination \in SimpleStates

\* The events the application's hooks pass to process_event.
HookEvents == {"ev", "cycle"}

NextThreads ==
    \E t \in Threads :
        \/ Request(t)
        \/ \E event \in (IF Len(stack[t]) > 1 THEN HookEvents ELSE Events) :
              \E pv \in ValuationsOver(CallPreds(event)) :
                Enter(t, event, pv)
        \/ Return(t)
        \/ Raise(t)
        \/ \E event \in Events : GuardRaises(t, event)
        \/ JunctionRaises(t)

SpecThreads == InitThreads /\ [][NextThreads]_vars

-----------------------------------------------------------------------------
(* Vocabulary of the properties.                                           *)

Returned == call.op \in {"__init__", "process_event"} /\ result = "ok"

\* The first child attached to super-state s, read off the construction.
FirstAttached(s) ==
    Attachments[CHOOSE i \in 1..Len(Attachments) :
                    /\ Attachments[i][2] = s
                    /\ \A k \in 1..(i - 1) : Attachments[k][2] # s][1]

\* The leaf below n reached by following first-attached children.
RECURSIVE StartingLeaf(_)
StartingLeaf(n) == IF n \in SuperStates THEN StartingLeaf(FirstAttached(n)) ELSE n

\* Every super-state on that path is in starting-state mode.
RECURSIVE StartingPath(_, _)
StartingPath(n, pe) ==
    n \in SuperStates => (pe[n] = STARTING_STATE /\ StartingPath(FirstAttached(n), pe))

\* Neither n nor any ancestor of n has the event in its table.
NotHandled(n, event) ==
    /\ transitions(n, event).type = "absent"
    /\ \A i \in 1..Len(_get_ancestors(n)) :
          transitions(_get_ancestors(n)[i], event).type = "absent"

\* The predicates' values a call saw, from the evaluations it made.
PvOf(called) ==
    [p \in Preds |-> \E i \in 1..Len(called) : called[i][1] = p /\ called[i][2]]

Count(hs, hook, of) ==
    Cardinality({i \in 1..Len(hs) : hs[i].hook = hook /\ hs[i].of = of})

\* The step changes neither the active state nor any history slot.
NoStateChange ==
    /\ current_state' = current_state
    /\ deep_history' = deep_history
    /\ shallow_history' = shallow_history

-----------------------------------------------------------------------------
(* C1: after the constructor or a process_event call has returned,         *)
(* current_state is never a SuperState, whatever node the machine was      *)
(* constructed on and whatever a junction chose.  The code does not        *)
(* uphold this: __init__ and the junction's recursive transition go to the *)
(* node as given, without following a super-state to a sub-state.          *)
C1_CurrentNeverSuperState ==
    Returned => current_state \notin SuperStates

-----------------------------------------------------------------------------
(* C2: when the handling state's table maps the event to a node T,         *)
(* process_event ends with current_state = T if T is a simple state, and,  *)
(* if T is a super-state entered by starting state all the way down, with  *)
(* current_state the leaf reached through the first children attached.     *)
C2_DirectTargetResolved ==
    (call.op = "process_event" /\ call.value.type = "node") =>
        LET T == call.value.state
        IN  /\ T \in SimpleStates => (result = "ok" /\ current_state = T)
            /\ (T \in SuperStates /\ StartingPath(T, preferred_entry)
                    /\ StartingLeaf(T) \in SimpleStates)
                => (result = "ok" /\ current_state = StartingLeaf(T))

\* b --ev--> a in starting-state mode has landed on aaa (Scenario B's second firing).
C2_Witness ==
    /\ call.op = "process_event"
    /\ call.value = To("a")
    /\ StartingPath("a", preferred_entry)
    /\ current_state = "aaa"

-----------------------------------------------------------------------------
(* C3: if neither current_state nor any ancestor has the event in its      *)
(* table, process_event raises SMEventNotHandledException having invoked   *)
(* no hook, evaluated no predicate and changed neither current_state nor   *)
(* any history slot.                                                       *)
C3_NotHandledNoEffect ==
    [][(call'.op = "process_event" /\ NotHandled(current_state, call'.event)) =>
          /\ result' = "SMEventNotHandledException"
          /\ hooks' = <<>>
          /\ evals' = <<>>
          /\ NoStateChange]_vars

\* An unhandled event was processed below a super-state that holds history.
C3_Witness ==
    /\ call.op = "process_event"
    /\ result = "SMEventNotHandledException"
    /\ NotHandled(current_state, call.event)
    /\ _get_ancestors(current_state) # <<>>
    /\ deep_history["a"] # None

-----------------------------------------------------------------------------
(* C4: a process_event call whose resolved target is None (the table value *)
(* None, or a Guard that evaluated false) invokes no hook and changes      *)
(* neither current_state nor any history slot, and returns normally.       *)
C4_InternalTransitionNoEffect ==
    [][(call'.op = "process_event" /\ call'.handling_state # None
            /\ call'.proxy_destination = None) =>
          /\ result' = "ok"
          /\ hooks' = <<>>
          /\ NoStateChange]_vars

\* aab handled noop internally, shadowing a's transition to b.
C4_Witness ==
    /\ call.op = "process_event"
    /\ call.value = Internal
    /\ call.handling_state = "aab"
    /\ current_state = "aab"
    /\ hooks = <<>>

-----------------------------------------------------------------------------
(* C5: when the table value is a Guard(condition, D), process_event calls  *)
(* the condition exactly once; if it is false the call has no effect, and  *)
(* if it is true the call's hooks, history writes and final current_state  *)
(* are those of a direct transition to D.                                  *)
C5_GuardEquivalence ==
    [][(call'.op = "process_event" /\ call'.value.type = "guard") =>
          LET guard == call'.value
              direct == transition_directly_to_state(
                            Fresh(current_state, deep_history, shallow_history),
                            _get_final_destination(guard.state, preferred_entry,
                                                   deep_history, shallow_history),
                            call'.event, PvOf(evals'))
          IN  /\ Cardinality({i \in 1..Len(evals') : evals'[i][1] = guard.condition}) = 1
              /\ evals'[1][1] = guard.condition
              /\ ~evals'[1][2] =>
                    (result' = "ok" /\ hooks' = <<>> /\ NoStateChange)
              /\ evals'[1][2] =>
                    /\ result' = direct.result
                    /\ hooks' = direct.hooks
                    /\ current_state' = direct.cur
                    /\ deep_history' = direct.deep
                    /\ shallow_history' = direct.shallow]_vars

\* abb's guard was true and the machine moved to b, exiting ab and a.
C5_Witness ==
    /\ call.op = "process_event"
    /\ call.value = Guard("p", "b")
    /\ evals = << <<"p", TRUE>> >>
    /\ current_state = "b"
    /\ Count(hooks, "on_exit", "a") = 1

\* abb's guard was false and nothing happened.
C5_WitnessFalse ==
    /\ call.op = "process_event"
    /\ call.value = Guard("p", "b")
    /\ evals = << <<"p", FALSE>> >>
    /\ current_state = "abb"
    /\ hooks = <<>>

-----------------------------------------------------------------------------
(* C6: a process_event call that performs a transition invokes, in order:  *)
(* event.before, the exit hooks, event.during, the entry hooks,            *)
(* event.after with current_state already the destination, the nodes'      *)
(* enforce hooks, and the machine's enforce last.  The code breaks the     *)
(* order when the destination is a ConditionalJunction (see C10).          *)

Transitioned == call.op = "process_event" /\ result = "ok" /\ hooks # <<>>

\* hs is: before, exits, during, entries, after (on the destination), enforces, machine.
InHookOrder(hs, event, destination) ==
    \E d \in 1..Len(hs), f \in 1..Len(hs) :
        /\ 1 < d /\ d < f /\ f < Len(hs)
        /\ hs[1].hook = "on_before_transition" /\ hs[1].of = event
        /\ \A i \in 2..(d - 1) : hs[i].hook = "on_exit"
        /\ hs[d].hook = "on_during_transition" /\ hs[d].of = event
        /\ \A i \in (d + 1)..(f - 1) : hs[i].hook = "on_entry"
        /\ hs[f].hook = "on_after_transition" /\ hs[f].of = event
        /\ hs[f].cur = destination
        /\ \A i \in (f + 1)..Len(hs) : hs[i].hook = "enforce"
        /\ \A i \in (f + 1)..(Len(hs) - 1) : hs[i].of # Machine
        /\ hs[Len(hs)].of = Machine

\* C6: every completed transition of process_event has its hooks in that order.
C6_HookOrder ==
    Transitioned => InHookOrder(hooks, call.event, current_state)

\* The order does hold for every transition whose destination is no junction.
C6_HookOrderWithoutJunction ==
    (Transitioned /\ call.final_destination \notin Junctions)
        => InHookOrder(hooks, call.event, current_state)

\* abb --ev--> b: two ancestors exited, one node entered.
C6_Witness ==
    /\ Transitioned
    /\ call.final_destination = "b"
    /\ Count(hooks, "on_exit", "ab") = 1
    /\ Count(hooks, "on_exit", "a") = 1
    /\ InHookOrder(hooks, call.event, "b")

-----------------------------------------------------------------------------
(* C7: a super-state C in deep-history mode that was exited while the      *)
(* active leaf was L is re-entered, by a later transition that targets C,  *)
(* at L: the call ends with current_state = L.                             *)
C7_DeepHistoryRestores ==
    [][(/\ call'.op = "process_event"
        /\ call'.proxy_destination \in SuperStates
        /\ preferred_entry[call'.proxy_destination] = DEEP_HISTORY
        /\ exit_leaf[call'.proxy_destination] \in SimpleStates) =>
          /\ result' = "ok"
          /\ current_state' = exit_leaf[call'.proxy_destination]]_vars

\* abb --ev--> b --ev--> a with a in deep-history mode is back at abb (Scenario C).
C7_Witness ==
    /\ call.op = "process_event"
    /\ call.event = "ev"
    /\ call.proxy_destination = "a"
    /\ preferred_entry["a"] = DEEP_HISTORY
    /\ exit_leaf["a"] = "abb"
    /\ current_state = "abb"
    /\ Count(hooks, "on_exit", "b") = 1

-----------------------------------------------------------------------------
(* C8: a super-state C in shallow-history mode that was exited through its *)
(* direct child K is re-entered, by a later transition that targets C from *)
(* outside C, through K, and K is resolved by its own preferred entry, not *)
(* by C's history.                                                         *)
C8_ShallowHistoryRestoresChild ==
    [][(/\ call'.op = "process_event"
        /\ call'.proxy_destination \in SuperStates
        /\ preferred_entry[call'.proxy_destination] = SHALLOW_HISTORY
        /\ exit_child[call'.proxy_destination] # None
        /\ ~InSeq(call'.proxy_destination, _get_ancestors(current_state))
        /\ current_state # call'.proxy_destination) =>
          LET K == exit_child[call'.proxy_destination]
              own == _get_final_destination(K, preferred_entry,
                                            deep_history, shallow_history)
          IN  /\ parent(K) = call'.proxy_destination
              /\ call'.final_destination = own
              /\ own # None => Count(hooks', "on_entry", K) >= 1
              /\ own \in SimpleStates => (result' = "ok" /\ current_state' = own)
              /\ (K \in SuperStates /\ StartingPath(K, preferred_entry)
                      /\ StartingLeaf(K) \in SimpleStates)
                    => current_state' = StartingLeaf(K)]_vars

\* abb --ev--> b --ev--> a with a in shallow-history mode ends at aba, the
\* starting state of ab, while a's deep history is abb (Scenario D).
C8_Witness ==
    /\ call.op = "process_event"
    /\ call.event = "ev"
    /\ call.proxy_destination = "a"
    /\ preferred_entry["a"] = SHALLOW_HISTORY
    /\ preferred_entry["ab"] = STARTING_STATE
    /\ exit_child["a"] = "ab"
    /\ deep_history["a"] = "abb"
    /\ current_state = "aba"

-----------------------------------------------------------------------------
(* C9: evaluate() returns the state paired with the first condition, in    *)
(* insertion order, that is true, whatever the later conditions are, and   *)
(* the default state when none is true; the call changes neither the       *)
(* junction nor the machine.                                               *)
C9_EvaluateFirstTrue ==
    [][call'.op = "evaluate" =>
          LET conditions == junction.condition_list
              Holds(i) == env'[conditions[i].condition]
          IN  /\ \A i \in 1..Len(conditions) :
                    (Holds(i) /\ \A k \in 1..(i - 1) : ~Holds(k))
                        => returned' = conditions[i].state
              /\ (\A i \in 1..Len(conditions) : ~Holds(i))
                    => returned' = junction.default_state
              /\ junction' = junction
              /\ preferred_entry' = preferred_entry
              /\ NoStateChange]_vars

\* Three conditions, the second and the third both true: the second one's state.
C9_Witness ==
    /\ call.op = "evaluate"
    /\ Len(junction.condition_list) = 3
    /\ ~env[junction.condition_list[1].condition]
    /\ env[junction.condition_list[2].condition]
    /\ env[junction.condition_list[3].condition]
    /\ junction.condition_list[3].state # junction.condition_list[2].state
    /\ junction.default_state # junction.condition_list[2].state
    /\ returned = junction.condition_list[2].state

-----------------------------------------------------------------------------
(* C10: a process_event call whose destination is a ConditionalJunction    *)
(* performs one transition: the junction's on_entry, on_exit and enforce,  *)
(* the event's before, during and after, the machine's enforce and each    *)
(* super-state's exit (with its history write) happen once.  The code runs *)
(* transition_directly_to_state a second time from the junction, so the    *)
(* machine's enforce fires twice.                                          *)
C10_JunctionSinglePass ==
    (call.op = "process_event" /\ result = "ok"
            /\ call.final_destination \in Junctions) =>
        /\ Count(hooks, "on_entry", call.final_destination) = 1
        /\ Count(hooks, "on_exit", call.final_destination) = 1
        /\ Count(hooks, "enforce", call.final_destination) = 1
        /\ Count(hooks, "on_before_transition", call.event) = 1
        /\ Count(hooks, "on_during_transition", call.event) = 1
        /\ Count(hooks, "on_after_transition", call.event) = 1
        /\ Count(hooks, "enforce", Machine) = 1
        /\ \A s \in SuperStates : Count(hooks, "on_exit", s) <= 1

-----------------------------------------------------------------------------
(* Vocabulary of the phase properties: the tree read off the parent links  *)
(* as sets, and a call's hooks of one kind.                                *)

\* The proper ancestors of n under the parent links.
RECURSIVE AboveBy(_, _)
AboveBy(links, n) ==
    IF links[n] = None THEN {} ELSE {links[n]} \cup AboveBy(links, links[n])

\* The proper ancestors of n.
Above(n) == AboveBy(Tree.parent, n)

\* The nodes on the path from the root to n, n included.
RootPath(n) == Above(n) \cup {n}

Depth(n) == Cardinality(Above(n))

\* The deepest node on both root paths, None when the paths share no node.
DeepestCommon(A, B) ==
    LET common == RootPath(A) \cap RootPath(B)
    IN  IF common = {} THEN None
        ELSE CHOOSE x \in common : \A y \in common : Depth(y) <= Depth(x)

\* The ancestors of n strictly below lca (all of them when lca is None), nearest first.
RECURSIVE StrictlyBelow(_, _)
StrictlyBelow(n, lca) ==
    IF parent(n) = None THEN <<>>
    ELSE (IF lca = None \/ lca \in Above(parent(n)) THEN <<parent(n)>> ELSE <<>>)
            \o StrictlyBelow(parent(n), lca)

\* The nodes (or events) whose `hook` ran, in the order of hs.
RECURSIVE Ran(_, _)
Ran(hs, hook) ==
    IF hs = <<>> THEN <<>>
    ELSE (IF Head(hs).hook = hook THEN <<Head(hs).of>> ELSE <<>>) \o Ran(Tail(hs), hook)

\* process_event has moved the machine from leaf current_state to a leaf.
LeafToLeaf ==
    /\ call'.op = "process_event"
    /\ current_state \in SimpleStates
    /\ call'.final_destination \in SimpleStates

-----------------------------------------------------------------------------
(* C15: a transition from leaf A to leaf B runs A.on_exit first and then   *)
(* on_exit on exactly the ancestors of A strictly below the deepest node   *)
(* common to both root paths, nearest first; no other node is exited.      *)
C15_ExitPhase ==
    [][LeafToLeaf =>
          LET A == current_state
              B == call'.final_destination
              lca == DeepestCommon(A, B)
          IN  /\ result' = "ok"
              /\ Ran(hooks', "on_exit") = <<A>> \o StrictlyBelow(A, lca)]_vars

\* abb --ev--> b has exited abb, ab, a; aaa --ev2--> aba would exit aaa, aa only.
C15_Witness ==
    /\ call.op = "process_event"
    /\ call.final_destination = "b"
    /\ Ran(hooks, "on_exit") = <<"abb", "ab", "a">>

\* aaa --ev2--> aba has exited aaa and aa, and not a.
C15_WitnessInner ==
    /\ call.op = "process_event"
    /\ call.final_destination = "aba"
    /\ Ran(hooks, "on_exit") = <<"aaa", "aa">>

-----------------------------------------------------------------------------
(* C16: a transition from leaf A to leaf B runs on_entry on exactly the    *)
(* ancestors of B strictly below the deepest node common to both root      *)
(* paths, outermost first, and B.on_entry last; no other node is entered.  *)
C16_EntryPhase ==
    [][LeafToLeaf =>
          LET A == current_state
              B == call'.final_destination
              lca == DeepestCommon(A, B)
          IN  /\ result' = "ok"
              /\ Ran(hooks', "on_entry") = Reverse(StrictlyBelow(B, lca)) \o <<B>>]_vars

\* b --ev--> a has entered a, aa, aaa.
C16_Witness ==
    /\ call.op = "process_event"
    /\ call.final_destination = "aaa"
    /\ Ran(hooks, "on_entry") = <<"a", "aa", "aaa">>

\* aaa --ev2--> aba has entered ab and aba, and not a.
C16_WitnessInner ==
    /\ call.op = "process_event"
    /\ call.final_destination = "aba"
    /\ Ran(hooks, "on_entry") = <<"ab", "aba">>

-----------------------------------------------------------------------------
(* C17: after a transition to a leaf, by the constructor or process_event, *)
(* enforce runs on the new leaf, then on every ancestor of the new leaf up *)
(* to the root, nearest first, then on the machine, each exactly once.     *)
C17_EnforcePhase ==
    (/\ call.op \in {"__init__", "process_event"}
     /\ call.final_destination \in SimpleStates) =>
        /\ result = "ok"
        /\ current_state = call.final_destination
        /\ Ran(hooks, "enforce")
              = <<current_state>> \o StrictlyBelow(current_state, None) \o <<Machine>>

\* aaa --ev2--> aba has enforced aba, ab, a (which was not entered) and the machine.
C17_Witness ==
    /\ call.op = "process_event"
    /\ call.final_destination = "aba"
    /\ Ran(hooks, "on_entry") = <<"ab", "aba">>
    /\ Ran(hooks, "enforce") = <<"aba", "ab", "a", Machine>>

-----------------------------------------------------------------------------
(* C18: a process_event call that targets a super-state C whose preferred  *)
(* entry is shallow or deep history while that history slot of C is still  *)
(* empty completes normally, with current_state the leaf reached through   *)
(* C's starting state.  The code does not fall back: _get_final_destination*)
(* answers the empty slot, None, and entering None raises AttributeError.  *)
C18_EmptyHistoryFallsBack ==
    [][(/\ call'.op = "process_event"
        /\ call'.proxy_destination \in SuperStates
        /\ LET C == call'.proxy_destination
           IN  \/ preferred_entry[C] = DEEP_HISTORY /\ deep_history[C] = None
               \/ preferred_entry[C] = SHALLOW_HISTORY /\ shallow_history[C] = None) =>
          LET C == call'.proxy_destination
          IN  /\ result' = "ok"
              /\ StartingPath(FirstAttached(C), preferred_entry)
                    => current_state' = StartingLeaf(C)]_vars

-----------------------------------------------------------------------------
(* C19: process_event uses the table of the nearest node, from             *)
(* current_state itself upward, that has the event.  An entry on a nearer  *)
(* node, be it None or a Guard that is false, shadows an ancestor's entry  *)
(* (the call then changes nothing); an event only an ancestor declares is  *)
(* handled by that ancestor for every state beneath it.                    *)

\* The deepest node on the root path of n whose table has the event, else None.
Nearest(n, event) ==
    LET holders == {x \in RootPath(n) : transitions(x, event).type # "absent"}
    IN  IF holders = {} THEN None
        ELSE CHOOSE x \in holders : \A y \in holders : Depth(y) <= Depth(x)

\* C19: every process_event call is settled by the nearest holder of the event.
C19_NearestHandler ==
    [][call'.op = "process_event" =>
          LET h == Nearest(current_state, call'.event)
              v == IF h = None THEN Absent ELSE transitions(h, call'.event)
              holds == v.type = "guard" /\ evals' # <<>> /\ evals'[1][2]
          IN  /\ call'.handling_state = h
              /\ call'.value = v
              /\ h = None <=> result' = "SMEventNotHandledException"
              /\ (v.type = "none" \/ (v.type = "guard" /\ ~holds))
                    => (result' = "ok" /\ hooks' = <<>> /\ NoStateChange)
              /\ (v.type = "node" \/ holds)
                    => /\ call'.proxy_destination = v.state
                       /\ hooks' # <<>>
                       /\ v.state \in SimpleStates
                            => (result' = "ok" /\ current_state' = v.state)]_vars

\* abb's Guard was false: ab's entry for the same event (to c) was not used.
C19_Witness ==
    /\ call.op = "process_event"
    /\ call.event = "guard"
    /\ call.handling_state = "abb"
    /\ transitions("ab", "guard") = To("c")
    /\ evals = << <<"p", FALSE>> >>
    /\ current_state = "abb"

\* aab's None entry shadowed a's entry for noop (to b).
C19_WitnessNone ==
    /\ call.op = "process_event"
    /\ call.event = "noop"
    /\ call.handling_state = "aab"
    /\ transitions("a", "noop") = To("b")
    /\ current_state = "aab"
    /\ result = "ok"

\* noop, declared on a only, was handled two levels below a, from aaa.
C19_WitnessAncestor ==
    /\ call.op = "process_event"
    /\ call.event = "noop"
    /\ call.handling_state = "a"
    /\ Ran(hooks, "on_exit") = <<"aaa", "aa", "a">>
    /\ current_state = "b"

-----------------------------------------------------------------------------
(* C20: in a process_event call that leaves leaf L for a destination that  *)
(* is no junction, every super-state whose on_exit ran gets                *)
(* _deep_history = L and _shallow_history = its child on the path to L,    *)
(* whatever its preferred entry; every other super-state keeps both slots. *)

\* The child of super-state s on the root path of n.
ChildToward(s, n) == CHOOSE x \in RootPath(n) : parent(x) = s

\* C20: both history slots of exactly the super-states exited are written.
C20_HistoryWrites ==
    [][(/\ call'.op = "process_event"
        /\ current_state \in SimpleStates
        /\ call'.proxy_destination # None
        /\ call'.final_destination \notin Junctions) =>
          LET L == current_state
              exited == {Ran(hooks', "on_exit")[i] :
                            i \in 1..Len(Ran(hooks', "on_exit"))}
          IN  /\ exited \subseteq RootPath(L)
              /\ \A s \in SuperStates :
                    IF s \in exited
                    THEN /\ deep_history'[s] = L
                         /\ shallow_history'[s] = ChildToward(s, L)
                    ELSE /\ deep_history'[s] = deep_history[s]
                         /\ shallow_history'[s] = shallow_history[s]]_vars

\* aba --guard--> c, handled by ab, after aaa --ev2--> aba: ab and a were exited
\* and written, with a not in a history mode; aa, outside the chain, kept its slots.
C20_Witness ==
    /\ call.op = "process_event"
    /\ call.event = "guard"
    /\ current_state = "c"
    /\ Ran(hooks, "on_exit") = <<"aba", "ab", "a">>
    /\ preferred_entry["a"] = STARTING_STATE
    /\ deep_history = [a |-> "aba", aa |-> "aaa", ab |-> "aba"]
    /\ shallow_history = [a |-> "ab", aa |-> "aaa", ab |-> "aba"]

-----------------------------------------------------------------------------
(* C14: for two distinct leaves A and B of a tree built by                 *)
(* add_to_super_state, the common ancestor _figure_out_ancestry computes   *)
(* is the deepest node on both the root-to-A and the root-to-B path, and   *)
(* it is None exactly when A and B have no ancestor in common.             *)
C14_CommonAncestorIsDeepest ==
    (ancestry_call # NoAncestry /\ ancestry_call.origin # ancestry_call.destination) =>
        LET links == attached.parent
            A == ancestry_call.origin
            B == ancestry_call.destination
            lca == ancestry_call.common_ancestor
            common == (AboveBy(links, A) \cup {A}) \cap (AboveBy(links, B) \cup {B})
        IN  /\ lca = None <=> AboveBy(links, A) \cap AboveBy(links, B) = {}
            /\ lca = None <=> common = {}
            /\ lca # None =>
                  /\ lca \in common
                  /\ \A y \in common :
                        Cardinality(AboveBy(links, y)) <= Cardinality(AboveBy(links, lca))

\* Siblings two levels down: aa is the answer although a is common as well.
C14_Witness ==
    /\ ancestry_call.origin = "aaa"
    /\ ancestry_call.destination = "aab"
    /\ attached.parent["aaa"] = "aa"
    /\ attached.parent["aab"] = "aa"
    /\ attached.parent["aa"] = "a"
    /\ ancestry_call.common_ancestor = "aa"

\* A leaf two levels down and a top-level leaf: no common ancestor.
C14_WitnessNone ==
    /\ ancestry_call.origin = "aba"
    /\ ancestry_call.destination = "b"
    /\ attached.parent["aba"] = "ab"
    /\ attached.parent["ab"] = "a"
    /\ attached.parent["b"] = None
    /\ ancestry_call.common_ancestor = None

-----------------------------------------------------------------------------
(* Vocabulary of the properties of calls in flight.                        *)

\* A hook log without the thread, call and depth of each invocation.
Plain(hs) == [i \in 1..Len(hs) |-> [hook |-> hs[i].hook, of |-> hs[i].of, cur |-> hs[i].cur]]

\* The step ends a call the application made, not one made from a hook.
CallEnds == ended'.thread # None /\ ended' # ended

\* The log is that of calls made by threads (not the constructor's).
ThreadLog == ended # NoEnded \/ \E t \in Threads : Running(t)

-----------------------------------------------------------------------------
(* C11: when two threads call process_event on one machine, at most one of *)
(* them is past `with self._lock` at any time: the other has looked up no  *)
(* handler and run no hook; every hook of the log of a call is the calling *)
(* thread's; and a call that made no re-entrant call ends with exactly the *)
(* hooks and the state of process_event run alone from the state the call  *)
(* found, so the trace of two calls is one call's hooks, then the other's. *)
C11_MutualExclusion ==
    [][/\ \A t \in Threads, u \in Threads :
              (Running(t)' /\ Running(u)') => t = u
       /\ (CallEnds /\ ended'.result = "ok" /\ ~ended'.reentered) =>
              LET m == process_event(
                           Fresh(ended'.start.cur, ended'.start.deep, ended'.start.shallow),
                           preferred_entry, ended'.event, ended'.pv)
              IN  /\ m.result = "ok"
                  /\ Plain(hooks') = m.hooks
                  /\ \A i \in 1..Len(hooks') : hooks'[i].thread = ended'.thread
                  /\ evals' = m.evals
                  /\ current_state' = m.cur
                  /\ deep_history' = m.deep
                  /\ shallow_history' = m.shallow]_vars

\* t2 called while t1's call was in flight and waited; when t1's call had ended
\* at aaa, t2's call went aaa --ev2--> aba with all its hooks.
C11_Witness ==
    /\ ended.thread = "t2"
    /\ ended.waited
    /\ ended.serial = 2
    /\ ended.result = "ok"
    /\ ended.origin = "aaa"
    /\ current_state = "aba"
    /\ Ran(hooks, "on_exit") = <<"aaa", "aa">>
    /\ Ran(hooks, "enforce") = <<"aba", "ab", "a", Machine>>

-----------------------------------------------------------------------------
(* C12: a process_event call made from a hook of a transition in flight    *)
(* never blocks: the thread owns the lock and the nested call can enter.   *)
(* Its hooks run as one block inside the outer call's hook: the outer      *)
(* call's frame does not move while the nested call is in flight, and the  *)
(* outer call's later hooks all come after the nested call's last hook.    *)
(* (A nested call made while current_state is a ConditionalJunction enters *)
(* as well and ends at once with AttributeError: that state is C10's.)     *)
C12_Reentrancy ==
    /\ \A t \in Threads :
          Len(stack[t]) > 1 =>
              /\ lock.owner = t
              /\ \A i \in 1..(Len(stack[t]) - 1) : stack[t][i].status = "running"
              /\ Top(t).status = "waiting" =>
                    ENABLED (\E event \in HookEvents :
                               \E pv \in ValuationsOver(CallPreds(event)) :
                                   Enter(t, event, pv))
    /\ ThreadLog =>
          \A i \in 1..Len(hooks), k \in 1..Len(hooks) :
              (i < k /\ hooks[i].serial = hooks[k].serial) =>
                  \A j \in i..k :
                      /\ hooks[j].depth >= hooks[i].depth
                      /\ hooks[j].depth = hooks[i].depth => hooks[j].serial = hooks[i].serial

\* b.on_exit, invoked by b --cycle--> c, called process_event(ev): the nested
\* call went b -> a (down to aaa) with all its hooks, the machine's enforce
\* included, before the outer call went on to enter c and end there.
C12_Witness ==
    /\ ended.result = "ok"
    /\ ended.reentered
    /\ ended.event = "cycle"
    /\ ended.origin = "b"
    /\ current_state = "c"
    /\ \E i \in 1..Len(hooks), j \in 1..Len(hooks), k \in 1..Len(hooks) :
          /\ i < j /\ j < k
          /\ hooks[i].depth = 1 /\ hooks[i].hook = "on_exit" /\ hooks[i].of = "b"
          /\ hooks[j].depth = 2 /\ hooks[j].hook = "enforce" /\ hooks[j].of = Machine
          /\ hooks[j].cur = "aaa"
          /\ hooks[k].depth = 1 /\ hooks[k].hook = "on_entry" /\ hooks[k].of = "c"

-----------------------------------------------------------------------------
(* C13: when a hook raised during a process_event call (that made no       *)
(* re-entrant call), current_state is the value from before the call if    *)
(* the hook was event.before, an on_exit, event.during or an on_entry, and *)
(* the destination, a state, if it was event.after or an enforce.  The     *)
(* code breaks the first half when the destination is a                    *)
(* ConditionalJunction: the second transition's on_exit and on_entry run   *)
(* after the junction was committed as current_state (see C10).            *)

HookFailed == ended # NoEnded /\ ended.result = "HookError" /\ ~ended.reentered

\* The step is a hook raising out of such a call.
HookFails == CallEnds /\ ended'.result = "HookError" /\ ~ended'.reentered

BeforeCommit == {"on_before_transition", "on_exit", "on_during_transition", "on_entry"}
AfterCommit == {"on_after_transition", "enforce"}

\* C13: no rollback, and current_state on either side of the commit.
C13_FailureLeavesCurrent ==
    [][HookFails =>
          /\ stack'[ended'.thread] = <<>>
          /\ NoStateChange
          /\ ended'.failed.hook \in BeforeCommit => current_state' = ended'.origin
          /\ ended'.failed.hook \in AfterCommit =>
                /\ current_state' \in States
                /\ ended'.final \in States => current_state' = ended'.final]_vars

\* The same holds for every call whose destination is no junction.
C13_FailureLeavesCurrentWithoutJunction ==
    [][(HookFails /\ ended'.final \notin Junctions) =>
          /\ stack'[ended'.thread] = <<>>
          /\ NoStateChange
          /\ ended'.failed.hook \in BeforeCommit => current_state' = ended'.origin
          /\ ended'.failed.hook \in AfterCommit => current_state' = ended'.final]_vars

\* a.on_entry raised in b --ev--> a after b was exited: current_state is still b.
C13_WitnessBefore ==
    /\ HookFailed
    /\ ended.failed = [hook |-> "on_entry", of |-> "a"]
    /\ ended.origin = "b"
    /\ current_state = "b"

\* The machine's enforce raised at the end of abb --ev--> b: current_state is b,
\* and a's history was written.
C13_WitnessAfter ==
    /\ HookFailed
    /\ ended.failed = [hook |-> "enforce", of |-> Machine]
    /\ ended.origin = "abb"
    /\ current_state = "b"
    /\ deep_history["a"] = "abb"

-----------------------------------------------------------------------------
(* C21: a process_event call whose final destination is current_state      *)
(* itself is a full cycle: the common ancestor is the node's parent, and   *)
(* the call runs event.before, the node's on_exit, event.during, the       *)
(* node's on_entry, event.after and the enforce phase, in that order, with *)
(* no on_exit or on_entry of any other node; current_state and every       *)
(* history slot are afterwards what they were.                             *)

\* The step is process_event resolving to the node the machine is in.
SelfTransition ==
    /\ call'.op = "process_event"
    /\ call'.final_destination # None
    /\ call'.final_destination = current_state

\* The hooks of a full cycle of node n under `event`, all of them run while
\* _current_state is n.
SelfCycle(n, event) ==
    LET order == << <<"on_before_transition", event>>, <<"on_exit", n>>,
                    <<"on_during_transition", event>>, <<"on_entry", n>>,
                    <<"on_after_transition", event>>, <<"enforce", n>> >>
                 \o [i \in 1..Len(_get_ancestors(n)) |-> <<"enforce", _get_ancestors(n)[i]>>]
                 \o << <<"enforce", Machine>> >>
    IN  [i \in 1..Len(order) |-> [hook |-> order[i][1], of |-> order[i][2], cur |-> n]]

C21_SelfTransitionFullCycle ==
    [][SelfTransition =>
          /\ result' = "ok"
          /\ _figure_out_ancestry(current_state, call'.final_destination)
                = parent(current_state)
          /\ hooks' = SelfCycle(current_state, call'.event)
          /\ NoStateChange]_vars

\* abb --ev2--> abb, two levels down: abb was exited and entered, ab and a
\* were neither, and all three were enforced.
C21_Witness ==
    /\ call.op = "process_event"
    /\ call.event = "ev2"
    /\ call.handling_state = "abb"
    /\ call.final_destination = "abb"
    /\ current_state = "abb"
    /\ result = "ok"
    /\ Ran(hooks, "on_exit") = <<"abb">>
    /\ Ran(hooks, "on_entry") = <<"abb">>
    /\ Ran(hooks, "enforce") = <<"abb", "ab", "a", Machine>>

\* b --ev2--> b at the top level: the parent, and so the common ancestor, is None.
C21_WitnessTop ==
    /\ call.op = "process_event"
    /\ call.event = "ev2"
    /\ call.handling_state = "b"
    /\ current_state = "b"
    /\ hooks = SelfCycle("b", "ev2")

-----------------------------------------------------------------------------
(* C22: when process_event's destination is a ConditionalJunction and the  *)
(* call takes the machine from leaf A to the leaf B the junction resolves  *)
(* to, every ancestor common to A and B is neither exited nor entered and  *)
(* keeps both history slots.  The code does not resolve the junction       *)
(* first: it transitions from A to the junction and, after the enforce     *)
(* phase, from the junction to what evaluate() returns, each time with the *)
(* common ancestor of that pair (see C10), so an ancestor of A and B that  *)
(* is no ancestor of the junction is exited, written and entered again.    *)
C22_JunctionResolvedFirst ==
    [][(/\ call'.op = "process_event"
        /\ call'.final_destination \in Junctions
        /\ result' = "ok"
        /\ current_state \in SimpleStates
        /\ current_state' \in SimpleStates) =>
          \A x \in Above(current_state) \cap Above(current_state') :
              /\ Count(hooks', "on_exit", x) = 0
              /\ Count(hooks', "on_entry", x) = 0
              /\ deep_history'[x] = deep_history[x]
              /\ shallow_history'[x] = shallow_history[x]]_vars

-----------------------------------------------------------------------------
(* C23: child.add_to_super_state(super) sets the child's parent to super;  *)
(* the child becomes super's starting state if super had none, and a super *)
(* that had one keeps it; no other link changes.  So every super-state     *)
(* with a child attached has a starting state, which is one of its         *)
(* children.                                                               *)
C23_AddChildKeepsFirstStartingState ==
    [][/\ attached' # attached =>
              \E child \in TreeNodes, super \in SuperStates :
                  /\ attached'.parent = [attached.parent EXCEPT ![child] = super]
                  /\ attached'.parent[child] = super
                  /\ attached'.starting_state =
                        [attached.starting_state EXCEPT
                            ![super] = IF @ = None THEN child ELSE @]
       /\ \A super \in SuperStates :
              (\E n \in Nodes : attached'.parent[n] = super) =>
                  /\ attached'.starting_state[super] # None
                  /\ attached'.parent[attached'.starting_state[super]] = super]_vars

\* ab was attached to a before aa was, and aaa to aa: a's starting state is
\* still ab.
C23_Witness ==
    /\ attached.parent["aa"] = "a"
    /\ attached.parent["ab"] = "a"
    /\ attached.parent["aaa"] = "aa"
    /\ attached.starting_state["a"] = "ab"
    /\ attached.starting_state["aa"] = "aaa"
    /\ attached.starting_state["ab"] = None

-----------------------------------------------------------------------------
(* C24: among the hooks of a process_event call, those of the calls its    *)
(* hooks made included, the on_entry and on_exit of each node alternate    *)
(* (no node is exited twice, or entered twice, without the other hook in   *)
(* between), and when the call has returned, current_state is a node whose *)
(* last such hook was on_entry.  The code does not uphold this for a call  *)
(* made from a hook that runs before `self._current_state =                *)
(* final_destination`: the nested call starts from the origin state the    *)
(* outer call has already exited and exits it again, and the outer call    *)
(* then enters its own destination on top of the nested call's.            *)

\* The on_entry and on_exit invocations of node n in hs, in order.
RECURSIVE EntryExit(_, _)
EntryExit(hs, n) ==
    IF hs = <<>> THEN <<>>
    ELSE (IF Head(hs).of = n /\ Head(hs).hook \in {"on_entry", "on_exit"}
          THEN <<Head(hs).hook>> ELSE <<>>) \o EntryExit(Tail(hs), n)

Alternates(s) == \A i \in 1..(Len(s) - 1) : s[i] # s[i + 1]

\* No thread has a call in flight, and the last call returned normally.
Quiescent == ended.result = "ok" /\ \A t \in Threads : stack[t] = <<>>

C24_BalancedEntryExit ==
    /\ \A n \in Nodes : Alternates(EntryExit(hooks, n))
    /\ Quiescent =>
          LET s == EntryExit(hooks, current_state)
          IN  s # <<>> => s[Len(s)] = "on_entry"

\* A hook that ran before the commit of its transition made a call that ran hooks.
EarlyReentry ==
    \E i \in 1..(Len(hooks) - 1) :
        /\ hooks[i].hook \in BeforeCommit
        /\ ThreadLog
        /\ hooks[i].depth < hooks[i + 1].depth

\* The same holds as long as no such call was made.
C24_BalancedWithoutEarlyReentry == ~EarlyReentry => C24_BalancedEntryExit

-----------------------------------------------------------------------------
(* C25: when a process_event call has ended by raising (the event was not  *)
(* handled, a hook or a predicate raised, in the call itself or in a call  *)
(* made from one of its hooks, or the code itself raised AttributeError),  *)
(* the thread holds no level of the lock: the lock is free until some call *)
(* enters.  At all times the lock's level is the number of `with` blocks   *)
(* of the calls in flight, all of them the owner's, and a call that waits  *)
(* while the lock is free, or is its thread's own, can enter.              *)

\* The last call to end raised.
Raised == ended.thread # None /\ ended.result # "ok"

C25_RaiseReleasesLock ==
    /\ Raised => (lock = Unlocked /\ \A t \in Threads : ~Running(t))
    /\ \A t \in Threads :
          /\ Held(stack[t]) > 0 => lock = [owner |-> t, count |-> Held(stack[t])]
          /\ (stack[t] # <<>> /\ Top(t).status = "waiting" /\ lock.owner \in {None, t}) =>
                ENABLED (\E event \in HookEvents :
                           \E pv \in ValuationsOver(CallPreds(event)) :
                               Enter(t, event, pv))
    /\ (\A t \in Threads : Held(stack[t]) = 0) => lock = Unlocked

\* A hook of a call made from a hook of t1's call raised (four `with` blocks
\* were open): the lock is free.
C25_Witness ==
    /\ ended.thread = "t1"
    /\ ended.result = "HookError"
    /\ ended.depth = 2
    /\ ended.reentered
    /\ lock = Unlocked
    /\ stack["t1"] = <<>>

\* t1's call raised out of the second transition, from a junction (three `with`
\* blocks were open), while t2 was waiting: t2's call can enter.
C25_WitnessWaiting ==
    /\ ended.thread = "t1"
    /\ ended.result = "HookError"
    /\ current_state \in Junctions
    /\ lock = Unlocked
    /\ stack["t2"] # <<>>
    /\ Top("t2").status = "waiting"
    /\ Top("t2").waited

\* The event was not handled; a Guard's condition raised.
C25_WitnessNotHandled ==
    /\ ended.result = "SMEventNotHandledException"
    /\ lock = Unlocked

C25_WitnessPredicate ==
    /\ ended.result = "PredicateError"
    /\ current_state \in Junctions
    /\ lock = Unlocked

-----------------------------------------------------------------------------
(* C26: in every reachable state, each super-state's _deep_history is None *)
(* or a simple state below that super-state, its _shallow_history is None  *)
(* or one of its children, and both are None while the super-state has     *)
(* never been exited.  The code writes _current_state as it is into        *)
(* _deep_history, and _current_state is a ConditionalJunction during the   *)
(* second transition of a call through a junction (see C10) and can be a   *)
(* SuperState (see C1).                                                    *)
C26_HistoryWellFormed ==
    \A s \in SuperStates :
        /\ deep_history[s] # None =>
              (deep_history[s] \in SimpleStates /\ s \in Above(deep_history[s]))
        /\ shallow_history[s] # None => parent(shallow_history[s]) = s
        /\ exit_leaf[s] = None => (deep_history[s] = None /\ shallow_history[s] = None)

\* What does hold: a slot that is written holds a node below the super-state,
\* of whatever kind, and the shallow slot a child of the super-state.
C26_HistoryBelowItsSuperState ==
    \A s \in SuperStates :
        /\ deep_history[s] # None => s \in Above(deep_history[s])
        /\ shallow_history[s] # None => parent(shallow_history[s]) = s
        /\ exit_leaf[s] = None => (deep_history[s] = None /\ shallow_history[s] = None)

====
